---- MODULE Spec2Model ----
(***************************************************************************)
(* evolvable_numerals: the variable-resolution bit genome BinaryPGA2       *)
(* (src/src/lib.rs) and the numeral EvolvableF64 built on it               *)
(* (src/src/f64.rs).                                                       *)
(*                                                                         *)
(* One object is modelled through its life: it is constructed by one of    *)
(* the three constructors and then mutated and decoded.  The random        *)
(* generator is the only source of nondeterminism: every rng.gen() is a    *)
(* free boolean, every rng.gen_bool(p) a free boolean unless p is 0.0 or   *)
(* 1.0.  The f64 / f32 arithmetic of the projection is IEEE 754 binary     *)
(* arithmetic (round to nearest, ties to even), computed on significands   *)
(* held as sequences of 15-bit limbs.                                      *)
(***************************************************************************)
EXTENDS Integers, Sequences, FiniteSets

VARIABLES
    kind,       \* "none" | "genome" (a bare BinaryPGA2) | "numeral" (an EvolvableF64)
    bits,       \* BinaryPGA2.0 : the BitVec, as a sequence of booleans
    range,      \* EvolvableF64.range (NoRange for a bare genome)
    requested,  \* the resolution the constructor was asked for (1 for new)
    last,       \* the operation that was called last
    rate,       \* its mutation_rate argument (NoRate if it has none)
    pre,        \* the bits when that operation was called
    mid,        \* mutate_resolution: the bits between its two trials
    incFired,   \* mutate_resolution: the first gen_bool returned true
    decFired,   \* mutate_resolution: the second gen_bool returned true
    arg,        \* f64 / f32 / value: the range projected onto
    out         \* f64 / f32 / value: the number returned

vars == <<kind, bits, range, requested, last, rate, pre, mid, incFired, decFired, arg, out>>

(***************************************************************************)
(* Bounds of the model.                                                    *)
(***************************************************************************)
\* The largest resolution a genome is constructed with or grown to.
MaxRes == 4

(***************************************************************************)
(* Natural numbers of any size, for the significands of f64 and f32: a     *)
(* sequence of limbs below LimbBase, least significant first, without high *)
(* zero limbs (0 is the empty sequence).                                   *)
(***************************************************************************)
LimbBits == 15
LimbBase == 2 ^ LimbBits

Max(a, b) == IF a >= b THEN a ELSE b
Min(a, b) == IF a <= b THEN a ELSE b

RECURSIVE BigNorm(_)
BigNorm(x) ==
    IF x = <<>> THEN x
    ELSE IF x[Len(x)] = 0 THEN BigNorm(SubSeq(x, 1, Len(x) - 1)) ELSE x

RECURSIVE BigOfInt(_)
BigOfInt(n) == IF n = 0 THEN <<>> ELSE <<n % LimbBase>> \o BigOfInt(n \div LimbBase)

BigLimb(x, i) == IF i >= 1 /\ i <= Len(x) THEN x[i] ELSE 0

RECURSIVE BigAddFrom(_, _, _, _)
BigAddFrom(x, y, i, carry) ==
    IF i > Len(x) /\ i > Len(y)
    THEN IF carry = 0 THEN <<>> ELSE <<carry>>
    ELSE LET s == BigLimb(x, i) + BigLimb(y, i) + carry
         IN  <<s % LimbBase>> \o BigAddFrom(x, y, i + 1, s \div LimbBase)

BigAdd(x, y) == BigAddFrom(x, y, 1, 0)

\* x - y for x >= y
RECURSIVE BigSubFrom(_, _, _, _)
BigSubFrom(x, y, i, borrow) ==
    IF i > Len(x) THEN <<>>
    ELSE LET d == BigLimb(x, i) - BigLimb(y, i) - borrow
         IN  IF d < 0 THEN <<d + LimbBase>> \o BigSubFrom(x, y, i + 1, 1)
                      ELSE <<d>> \o BigSubFrom(x, y, i + 1, 0)

BigSub(x, y) == BigNorm(BigSubFrom(x, y, 1, 0))

\* -1, 0, 1 as x < y, x = y, x > y
RECURSIVE BigCmpFrom(_, _, _)
BigCmpFrom(x, y, i) ==
    IF i = 0 THEN 0
    ELSE IF x[i] < y[i] THEN -1
    ELSE IF x[i] > y[i] THEN 1
    ELSE BigCmpFrom(x, y, i - 1)

BigCmp(x, y) ==
    IF Len(x) < Len(y) THEN -1
    ELSE IF Len(x) > Len(y) THEN 1
    ELSE BigCmpFrom(x, y, Len(x))

\* x * d for one limb d
RECURSIVE BigMulLimbFrom(_, _, _, _)
BigMulLimbFrom(x, d, i, carry) ==
    IF i > Len(x)
    THEN IF carry = 0 THEN <<>> ELSE <<carry>>
    ELSE LET s == x[i] * d + carry
         IN  <<s % LimbBase>> \o BigMulLimbFrom(x, d, i + 1, s \div LimbBase)

BigMulLimb(x, d) == IF d = 0 THEN <<>> ELSE BigMulLimbFrom(x, d, 1, 0)

BigShlLimbs(x, n) == IF x = <<>> THEN x ELSE [i \in 1..n |-> 0] \o x

RECURSIVE BigMulFrom(_, _, _)
BigMulFrom(x, y, j) ==
    IF j > Len(y) THEN <<>>
    ELSE BigAdd(BigShlLimbs(BigMulLimb(x, y[j]), j - 1), BigMulFrom(x, y, j + 1))

BigMul(x, y) == BigMulFrom(x, y, 1)

\* the number of bits of a limb, and of a number
LimbBitLen(v) == IF v = 0 THEN 0 ELSE CHOOSE k \in 1..LimbBits : 2 ^ (k - 1) <= v /\ v < 2 ^ k
BigBitLen(x) == IF x = <<>> THEN 0 ELSE (Len(x) - 1) * LimbBits + LimbBitLen(x[Len(x)])

\* x * 2^s
BigShl(x, s) == BigShlLimbs(BigMulLimb(x, 2 ^ (s % LimbBits)), s \div LimbBits)

\* floor(x / 2^s)
BigShr(x, s) ==
    LET q == s \div LimbBits
        r == s % LimbBits
        y == IF q >= Len(x) THEN <<>> ELSE SubSeq(x, q + 1, Len(x))
    IN  BigNorm([i \in 1..Len(y) |->
                    (y[i] \div 2 ^ r) + (BigLimb(y, i + 1) % 2 ^ r) * 2 ^ (LimbBits - r)])

\* bit i of x (bit 0 is the lowest)
BigBit(x, i) == (BigLimb(x, i \div LimbBits + 1) \div 2 ^ (i % LimbBits)) % 2

\* whether the s lowest bits of x are all zero
BigLowZero(x, s) ==
    /\ \A j \in 1..Min(s \div LimbBits, Len(x)) : x[j] = 0
    /\ BigLimb(x, s \div LimbBits + 1) % 2 ^ (s % LimbBits) = 0

\* <<floor(x / n), x % n>> for a divisor 0 < n < 2^16, from limb i down
RECURSIVE BigDivSmallFrom(_, _, _, _)
BigDivSmallFrom(x, n, i, rem) ==
    IF i = 0 THEN <<<<>>, rem>>
    ELSE LET cur  == rem * LimbBase + x[i]
             rest == BigDivSmallFrom(x, n, i - 1, cur % n)
         IN  <<Append(rest[1], cur \div n), rest[2]>>

BigDivSmall(x, n) ==
    LET r == BigDivSmallFrom(x, n, Len(x), 0)
    IN  <<BigNorm(r[1]), r[2]>>

(***************************************************************************)
(* IEEE 754 binary floating point.  A format gives the precision p (bits   *)
(* of the significand), qmin (the exponent of the last place of the        *)
(* subnormals) and qmax (the exponent of the last place of the largest     *)
(* finite numbers).  A number is a record: cls "fin" is (-1)^neg * m * 2^e *)
(* with m < 2^p, e >= qmin and m >= 2^(p-1) unless e = qmin (the format's  *)
(* own encoding, so equal records are equal numbers); zero has m = <<>>    *)
(* and e = 0 and keeps its sign.  cls "inf" and "nan" are the infinities   *)
(* and NaN, cls "none" is no number at all.                                *)
(***************************************************************************)
F64Fmt == [p |-> 53, qmin |-> -1074, qmax |-> 971]
F32Fmt == [p |-> 24, qmin |-> -149, qmax |-> 104]

NaN == [cls |-> "nan", neg |-> FALSE, m |-> <<>>, e |-> 0]
NoValue == [cls |-> "none", neg |-> FALSE, m |-> <<>>, e |-> 0]
Inf(neg) == [cls |-> "inf", neg |-> neg, m |-> <<>>, e |-> 0]
Zero(neg) == [cls |-> "fin", neg |-> neg, m |-> <<>>, e |-> 0]
Fin(neg, m, e) == [cls |-> "fin", neg |-> neg, m |-> m, e |-> e]

IsZero(a) == a.cls = "fin" /\ a.m = <<>>

\* (-1)^neg * m * 2^e, for any natural m, rounded to the format: to nearest, ties
\* to even, to an infinity above the largest finite number
FRound(fmt, neg, m, e) ==
    IF m = <<>> THEN Zero(neg)
    ELSE LET q == Max(e + BigBitLen(m) - fmt.p, fmt.qmin)
             s == q - e
         IN  IF s <= 0
             THEN IF q > fmt.qmax THEN Inf(neg) ELSE Fin(neg, BigShl(m, -s), q)
             ELSE LET keep == BigShr(m, s)
                      up   == /\ BigBit(m, s - 1) = 1
                              /\ (~BigLowZero(m, s - 1) \/ BigBit(m, s) = 1)
                      r    == IF up THEN BigAdd(keep, <<1>>) ELSE keep
                      over == BigBitLen(r) > fmt.p
                      r2   == IF over THEN BigShr(r, 1) ELSE r
                      q2   == IF over THEN q + 1 ELSE q
                  IN  IF r2 = <<>> THEN Zero(neg)
                      ELSE IF q2 > fmt.qmax THEN Inf(neg)
                      ELSE Fin(neg, r2, q2)

\* the number n * 2^e of the format, for an integer n
FOfInt(fmt, n, e) == FRound(fmt, n < 0, BigOfInt(IF n < 0 THEN -n ELSE n), e)

FNeg(a) == IF a.cls \in {"nan", "none"} THEN a ELSE [a EXCEPT !.neg = ~a.neg]

\* a + b of two finite numbers other than zero.  Operands more than AlignMax binary
\* places apart: the lower one only says on which side of the higher one the sum
\* lies, three places below its last.
AlignMax == 64

FAddFin(fmt, a, b) ==
    LET far == a.e - b.e > AlignMax \/ b.e - a.e > AlignMax
        lo  == IF far THEN Max(a.e, b.e) - 3 ELSE Min(a.e, b.e)
        ma  == IF far THEN (IF a.e > b.e THEN BigShl(a.m, 3) ELSE <<1>>)
                      ELSE BigShl(a.m, a.e - lo)
        mb  == IF far THEN (IF b.e > a.e THEN BigShl(b.m, 3) ELSE <<1>>)
                      ELSE BigShl(b.m, b.e - lo)
        c   == BigCmp(ma, mb)
    IN  IF a.neg = b.neg THEN FRound(fmt, a.neg, BigAdd(ma, mb), lo)
        ELSE IF c = 0 THEN Zero(FALSE)
        ELSE IF c > 0 THEN FRound(fmt, a.neg, BigSub(ma, mb), lo)
        ELSE FRound(fmt, b.neg, BigSub(mb, ma), lo)

\* a + b
FAdd(fmt, a, b) ==
    IF a.cls = "nan" \/ b.cls = "nan" THEN NaN
    ELSE IF a.cls = "inf"
         THEN IF b.cls = "inf" /\ b.neg # a.neg THEN NaN ELSE a
    ELSE IF b.cls = "inf" THEN b
    ELSE IF IsZero(a) /\ IsZero(b) THEN Zero(a.neg /\ b.neg)
    ELSE IF IsZero(a) THEN b
    ELSE IF IsZero(b) THEN a
    ELSE FAddFin(fmt, a, b)

\* a - b
FSub(fmt, a, b) == FAdd(fmt, a, FNeg(b))

\* a * b
FMul(fmt, a, b) ==
    IF a.cls = "nan" \/ b.cls = "nan" THEN NaN
    ELSE IF a.cls = "inf" \/ b.cls = "inf"
         THEN IF IsZero(a) \/ IsZero(b) THEN NaN ELSE Inf(a.neg # b.neg)
    ELSE IF IsZero(a) \/ IsZero(b) THEN Zero(a.neg # b.neg)
    ELSE FRound(fmt, a.neg # b.neg, BigMul(a.m, b.m), a.e + b.e)

\* (k as float) / (n as float) for naturals k, n below 2^16, which the conversion
\* represents exactly: the quotient to DivBits binary places and one more place that
\* says whether anything is left, rounded once
DivBits == 75

FDivNat(fmt, k, n) ==
    IF n = 0 THEN (IF k = 0 THEN NaN ELSE Inf(FALSE))
    ELSE LET d == BigDivSmall(BigShl(BigOfInt(k), DivBits), n)
         IN  FRound(fmt, FALSE,
                    BigAdd(BigShl(d[1], 1), IF d[2] = 0 THEN <<>> ELSE <<1>>),
                    -(DivBits + 1))

\* a < b, a <= b and a == b as the comparisons of the format decide them
FMagCmp(a, b) ==
    IF IsZero(a) THEN (IF IsZero(b) THEN 0 ELSE -1)
    ELSE IF IsZero(b) THEN 1
    ELSE IF a.e < b.e THEN -1
    ELSE IF a.e > b.e THEN 1
    ELSE BigCmp(a.m, b.m)

\* -1, 0, 1 for two numbers neither of which is NaN
FCmp(a, b) ==
    LET sa == IF IsZero(a) THEN 0 ELSE IF a.neg THEN -1 ELSE 1
        sb == IF IsZero(b) THEN 0 ELSE IF b.neg THEN -1 ELSE 1
    IN  IF sa # sb THEN (IF sa < sb THEN -1 ELSE 1)
        ELSE IF sa = 0 THEN 0
        ELSE IF a.cls = "inf" THEN (IF b.cls = "inf" THEN 0 ELSE sa)
        ELSE IF b.cls = "inf" THEN -sa
        ELSE sa * FMagCmp(a, b)

IsNumber(a) == a.cls \in {"fin", "inf"}
FLt(a, b) == IsNumber(a) /\ IsNumber(b) /\ FCmp(a, b) < 0
FLe(a, b) == IsNumber(a) /\ IsNumber(b) /\ FCmp(a, b) <= 0
FEq(a, b) == IsNumber(a) /\ IsNumber(b) /\ FCmp(a, b) = 0

(***************************************************************************)
(* The random generator.  rng.gen::<bool>() is any boolean.                *)
(* rng.gen_bool(p) is true with probability p: always for p = 1.0, never   *)
(* for p = 0.0.  The rates tried are 0.0, 0.5 and 1.0.                     *)
(***************************************************************************)
MutationRates == {"0.0", "0.5", "1.0"}
NoRate == "-"

gen == BOOLEAN

gen_bool(p) ==
    IF p = "1.0" THEN {TRUE}
    ELSE IF p = "0.0" THEN {FALSE}
    ELSE BOOLEAN

(***************************************************************************)
(* BinaryPGA2 (src/src/lib.rs).  The operations as functions of the bits   *)
(* and of what the random generator returns.                               *)
(***************************************************************************)
\* BinaryPGA2::new() : BitVec::EMPTY, then one push
new(b) == Append(<<>>, b)

\* BinaryPGA2::with_resolution(resolution) : one push per turn of the loop
RECURSIVE with_resolution_from(_, _, _)
with_resolution_from(data, resolution, draws) ==
    IF Len(data) >= resolution THEN data
    ELSE with_resolution_from(Append(data, draws[Len(data) + 1]), resolution, draws)

with_resolution(resolution, draws) == with_resolution_from(<<>>, resolution, draws)

\* a slip: the new bit is put in front of the others
increase_resolution_front(data, b) == <<b>> \o data

\* increase_resolution : push
increase_resolution(data, b) == Append(data, b)

\* a slip: pop without the test of the length
decrease_resolution_unguarded(data) ==
    IF Len(data) > 0 THEN SubSeq(data, 1, Len(data) - 1) ELSE data

\* a slip: the first bit is removed, not the last
decrease_resolution_front(data) ==
    IF Len(data) > 1 THEN SubSeq(data, 2, Len(data)) ELSE data

\* decrease_resolution : pop, if more than one bit is left
decrease_resolution(data) ==
    IF Len(data) > 1 THEN SubSeq(data, 1, Len(data) - 1) ELSE data

\* a slip: the first bit is passed over
mutate_skips_first(data, trials) ==
    [i \in 1..Len(data) |-> IF i > 1 /\ trials[i] THEN ~data[i] ELSE data[i]]

\* a slip: the bits whose trial fails are the ones replaced
mutate_inverted(data, trials) ==
    [i \in 1..Len(data) |-> IF ~trials[i] THEN ~data[i] ELSE data[i]]

\* mutate : every bit whose trial succeeds is replaced by its negation
mutate(data, trials) ==
    [i \in 1..Len(data) |-> IF trials[i] THEN ~data[i] ELSE data[i]]

\* a slip: BitVec::leading_ones, the set bits before the first unset one
RECURSIVE leading_ones(_)
leading_ones(data) ==
    IF data = <<>> \/ ~data[1] THEN 0
    ELSE 1 + leading_ones(SubSeq(data, 2, Len(data)))

\* BitVec::count_ones
RECURSIVE count_ones(_)
count_ones(data) ==
    IF data = <<>> THEN 0
    ELSE (IF data[Len(data)] THEN 1 ELSE 0) + count_ones(SubSeq(data, 1, Len(data) - 1))

\* f64(range) and f32(range) :
\*   (count_ones as f / len as f) * (range.end - range.start) + range.start
project(fmt, data, r) ==
    FAdd(fmt,
         FMul(fmt, FDivNat(fmt, count_ones(data), Len(data)), FSub(fmt, r.end, r.start)),
         r.start)

f64(data, r) == project(F64Fmt, data, r)
f32(data, r) == project(F32Fmt, data, r)

(***************************************************************************)
(* EvolvableNumeral and EvolvableF64 (src/src/f64.rs).                     *)
(***************************************************************************)
\* EvolvableF64::new(lower, upper)
EvolvableF64_new(lower, upper, b) ==
    [genome |-> new(b), range |-> [start |-> lower, end |-> upper]]

\* EvolvableNumeral::mutate_value
mutate_value(genome, trials) == mutate(genome, trials)

\* a slip: the two trials in the other order, the decrease first
mutate_resolution_swapped(genome, first, second, b) ==
    LET afterFirst == IF second THEN decrease_resolution(genome) ELSE genome
    IN  [mid  |-> afterFirst,
         bits |-> IF first THEN increase_resolution(afterFirst, b) ELSE afterFirst]

\* EvolvableNumeral::mutate_resolution : the bits after the first trial and after
\* the second
mutate_resolution(genome, first, second, b) ==
    LET afterFirst == IF first THEN increase_resolution(genome, b) ELSE genome
    IN  [mid  |-> afterFirst,
         bits |-> IF second THEN decrease_resolution(afterFirst) ELSE afterFirst]

\* EvolvableF64::value
value(genome, r) == f64(genome, r)

(***************************************************************************)
(* The ranges tried.  For f64: [0, 1), [-1, 1), two ranges with a bound    *)
(* next to a power of two, and one as wide as the format.  For f32:        *)
(* [0, 1), [-1, 1) and one as wide as the format.                          *)
(***************************************************************************)
Range(lower, upper) == [start |-> lower, end |-> upper]
NoRange == Range(NoValue, NoValue)

Ranges64 ==
    { Range(FOfInt(F64Fmt, 0, 0), FOfInt(F64Fmt, 1, 0)),
      Range(FOfInt(F64Fmt, -1, 0), FOfInt(F64Fmt, 1, 0)),
      Range(FOfInt(F64Fmt, -1, -54),
            FSub(F64Fmt, FOfInt(F64Fmt, 1, 0), FOfInt(F64Fmt, 1, -53))),
      Range(FOfInt(F64Fmt, -1, 0), FOfInt(F64Fmt, 1, -53)),
      Range(FOfInt(F64Fmt, -1, 1023), FOfInt(F64Fmt, 1, 1023)) }

Ranges32 ==
    { Range(FOfInt(F32Fmt, 0, 0), FOfInt(F32Fmt, 1, 0)),
      Range(FOfInt(F32Fmt, -1, 0), FOfInt(F32Fmt, 1, 0)),
      Range(FOfInt(F32Fmt, -1, 127), FOfInt(F32Fmt, 1, 127)) }

(***************************************************************************)
(* The state machine.                                                      *)
(***************************************************************************)
Init ==
    /\ kind = "none"
    /\ bits = <<>>
    /\ range = NoRange
    /\ requested = 0
    /\ last = "none"
    /\ rate = NoRate
    /\ pre = <<>>
    /\ mid = <<>>
    /\ incFired = FALSE
    /\ decFired = FALSE
    /\ arg = NoRange
    /\ out = NoValue

\* what an operation other than mutate_resolution and the projections leaves behind
Called(name, r) ==
    /\ last' = name
    /\ rate' = r
    /\ pre' = bits
    /\ mid' = <<>>
    /\ incFired' = FALSE
    /\ decFired' = FALSE
    /\ arg' = NoRange
    /\ out' = NoValue

New ==
    /\ kind = "none"
    /\ \E b \in gen :
        /\ bits' = new(b)
        /\ kind' = "genome"
        /\ requested' = 1
    /\ Called("new", NoRate)
    /\ UNCHANGED range

WithResolution ==
    /\ kind = "none"
    /\ \E resolution \in 0..MaxRes :
        \E draws \in [1..resolution -> gen] :
            /\ bits' = with_resolution(resolution, draws)
            /\ kind' = "genome"
            /\ requested' = resolution
    /\ Called("with_resolution", NoRate)
    /\ UNCHANGED range

EvolvableF64New ==
    /\ kind = "none"
    /\ \E r \in Ranges64 : \E b \in gen :
        LET numeral == EvolvableF64_new(r.start, r.end, b)
        IN  /\ bits' = numeral.genome
            /\ range' = numeral.range
            /\ kind' = "numeral"
            /\ requested' = 1
    /\ Called("EvolvableF64::new", NoRate)

IncreaseResolution ==
    /\ kind # "none"
    /\ Len(bits) < MaxRes
    /\ \E b \in gen : bits' = increase_resolution(bits, b)
    /\ Called("increase_resolution", NoRate)
    /\ UNCHANGED <<kind, range, requested>>

DecreaseResolution ==
    /\ kind # "none"
    /\ bits' = decrease_resolution(bits)
    /\ Called("decrease_resolution", NoRate)
    /\ UNCHANGED <<kind, range, requested>>

Mutate ==
    /\ kind # "none"
    /\ \E mutation_rate \in MutationRates :
        \E trials \in [1..Len(bits) -> gen_bool(mutation_rate)] :
            /\ bits' = mutate(bits, trials)
            /\ Called("mutate", mutation_rate)
    /\ UNCHANGED <<kind, range, requested>>

MutateValue ==
    /\ kind = "numeral"
    /\ \E mutation_rate \in MutationRates :
        \E trials \in [1..Len(bits) -> gen_bool(mutation_rate)] :
            /\ bits' = mutate_value(bits, trials)
            /\ Called("mutate_value", mutation_rate)
    /\ UNCHANGED <<kind, range, requested>>

MutateResolution ==
    /\ kind = "numeral"
    /\ \E mutation_rate \in MutationRates :
        \E first \in gen_bool(mutation_rate), second \in gen_bool(mutation_rate) :
            \E b \in (IF first THEN gen ELSE {FALSE}) :
                LET r == mutate_resolution(bits, first, second, b)
                IN  /\ Len(r.bits) <= MaxRes
                    /\ bits' = r.bits
                    /\ mid' = r.mid
                    /\ incFired' = first
                    /\ decFired' = second
                    /\ rate' = mutation_rate
    /\ last' = "mutate_resolution"
    /\ pre' = bits
    /\ arg' = NoRange
    /\ out' = NoValue
    /\ UNCHANGED <<kind, range, requested>>

\* what a projection leaves behind: the bits are as they were
Projected(name, r, v) ==
    /\ last' = name
    /\ rate' = NoRate
    /\ pre' = bits
    /\ mid' = <<>>
    /\ incFired' = FALSE
    /\ decFired' = FALSE
    /\ arg' = r
    /\ out' = v
    /\ UNCHANGED <<kind, bits, range, requested>>

Value ==
    /\ kind = "numeral"
    /\ Projected("value", range, value(bits, range))

F64 ==
    /\ kind = "genome"
    /\ \E r \in Ranges64 : Projected("f64", r, f64(bits, r))

F32 ==
    /\ kind = "genome"
    /\ \E r \in Ranges32 : Projected("f32", r, f32(bits, r))

Next ==
    \/ New
    \/ WithResolution
    \/ EvolvableF64New
    \/ IncreaseResolution
    \/ DecreaseResolution
    \/ Mutate
    \/ MutateValue
    \/ MutateResolution
    \/ Value
    \/ F64
    \/ F32

Spec == Init /\ [][Next]_vars

(***************************************************************************)
(* Properties.                                                             *)
(***************************************************************************)
SetBits(data) == {i \in 1..Len(data) : data[i]}
Constructors == {"new", "with_resolution", "EvolvableF64::new"}

\* C1: a genome created by new() or by with_resolution(n) with n >= 1 has at least
\* one bit after any sequence of increase_resolution, decrease_resolution, mutate,
\* mutate_value and mutate_resolution calls at any rate, between the two trials of
\* mutate_resolution as well as after each call.
C1_ResolutionAtLeastOne ==
    (kind # "none" /\ requested >= 1) =>
        /\ Len(bits) >= 1
        /\ last = "mutate_resolution" => Len(mid) >= 1

\* a one-bit numeral whose mutate_resolution call decreased without increasing
C1_Witness ==
    /\ last = "mutate_resolution"
    /\ decFired /\ ~incFired
    /\ Len(pre) = 1
    /\ requested >= 1

\* C2: no constructor call returns a genome of resolution 0: with_resolution(0)
\* fails instead of returning.
C2_NoGenomeOfResolutionZero ==
    last \in Constructors => Len(bits) >= 1

\* C3: decrease_resolution on r > 1 bits removes the last bit and leaves the first
\* r - 1 bits as they were, in value and order; on one bit it changes nothing.
C3_DecreaseRemovesLastBit ==
    (last = "decrease_resolution" /\ Len(pre) >= 1) =>
        IF Len(pre) > 1
        THEN /\ Len(bits) = Len(pre) - 1
             /\ \A i \in 1..Len(bits) : bits[i] = pre[i]
        ELSE bits = pre

\* a decrease of a genome whose first and last bits differ
C3_Witness ==
    /\ last = "decrease_resolution"
    /\ Len(pre) > 1
    /\ pre[1] # pre[Len(pre)]

\* C4: increase_resolution on r bits gives r + 1 bits: one bit appended at the end,
\* the r bits before it as they were.
C4_IncreaseAppendsOneBit ==
    last = "increase_resolution" =>
        /\ Len(bits) = Len(pre) + 1
        /\ \A i \in 1..Len(pre) : bits[i] = pre[i]

\* an increase of a genome of two or more bits that are not all alike
C4_Witness ==
    /\ last = "increase_resolution"
    /\ Len(pre) >= 2
    /\ pre[1] # pre[Len(pre)]

\* C5: mutate at rate 1.0 flips every bit: the length is kept, every bit is the
\* negation of the bit that was at its place, and no place holds a set bit both
\* before and after.
C5_RateOneFlipsEveryBit ==
    (last \in {"mutate", "mutate_value"} /\ rate = "1.0") =>
        /\ Len(bits) = Len(pre)
        /\ \A i \in 1..Len(pre) : bits[i] = ~pre[i]
        /\ Cardinality(SetBits(pre) \cap SetBits(bits)) = 0

\* a mutate at rate 1.0 of a genome of two or more bits, set and unset
C5_Witness ==
    /\ last = "mutate"
    /\ rate = "1.0"
    /\ Len(pre) >= 2
    /\ SetBits(pre) # {} /\ SetBits(pre) # 1..Len(pre)

\* C6: mutate at rate 0.0 changes nothing: the same length and the same bit at
\* every place.
C6_RateZeroChangesNothing ==
    (last \in {"mutate", "mutate_value"} /\ rate = "0.0") =>
        /\ Len(bits) = Len(pre)
        /\ \A i \in 1..Len(pre) : bits[i] = pre[i]

\* a mutate at rate 0.0 of a genome of two or more bits, set and unset
C6_Witness ==
    /\ last = "mutate"
    /\ rate = "0.0"
    /\ Len(pre) >= 2
    /\ SetBits(pre) # {} /\ SetBits(pre) # 1..Len(pre)

\* C7: the value() of a numeral constructed with lower < upper lies within
\* [lower, upper], after any sequence of mutate_value and mutate_resolution calls.
C7_ValueWithinRange ==
    (last = "value" /\ FLt(range.start, range.end)) =>
        /\ FLe(range.start, out)
        /\ FLe(out, range.end)

\* C8: the projection returns (k / n) * (upper - lower) + lower, k the number of set
\* bits and n the resolution when it is called, and every genome of that
\* resolution with as many set bits projects to the same number.
C8_ProjectionOfProportion ==
    last \in {"value", "f64", "f32"} =>
        LET fmt == IF last = "f32" THEN F32Fmt ELSE F64Fmt
            k   == Cardinality(SetBits(bits))
            n   == Len(bits)
        IN  /\ out = FAdd(fmt,
                          FMul(fmt, FDivNat(fmt, k, n), FSub(fmt, arg.end, arg.start)),
                          arg.start)
            /\ \A other \in [1..n -> BOOLEAN] :
                   Cardinality(SetBits(other)) = k =>
                       out = IF last = "f32" THEN f32(other, arg)
                             ELSE IF last = "f64" THEN f64(other, arg)
                             ELSE value(other, arg)

\* the value of a numeral that has grown since its construction and holds set and
\* unset bits
C8_Witness ==
    /\ last = "value"
    /\ Len(bits) > requested
    /\ SetBits(bits) # {} /\ SetBits(bits) # 1..Len(bits)
    /\ bits[1] # bits[Len(bits)]

\* the resolution right after a constructor: 1 from new() and EvolvableF64::new,
\* n from with_resolution(n), n >= 1
FreshResolution ==
    /\ last \in {"new", "EvolvableF64::new"} => Len(bits) = 1
    /\ (last = "with_resolution" /\ requested >= 1) => Len(bits) = requested

\* C9: a genome just constructed has the resolution asked for: 1 from new() and from
\* EvolvableF64::new, whose value() is then lower or upper, and n from
\* with_resolution(n), n >= 1.
C9_FreshGenome ==
    /\ FreshResolution
    /\ last = "EvolvableF64::new" =>
           \/ FEq(value(bits, range), range.start)
           \/ FEq(value(bits, range), range.end)

\* C10: mutate_resolution increases first and decreases second; at rate 1.0 both
\* trials succeed; when both succeed on a genome of one or more bits, the bits
\* are afterwards what they were; no call changes the resolution by more than 1.
C10_MutateResolution ==
    last = "mutate_resolution" =>
        /\ IF incFired
           THEN Len(mid) = Len(pre) + 1 /\ \A i \in 1..Len(pre) : mid[i] = pre[i]
           ELSE mid = pre
        /\ IF decFired /\ Len(mid) > 1
           THEN Len(bits) = Len(mid) - 1 /\ \A i \in 1..Len(bits) : bits[i] = mid[i]
           ELSE bits = mid
        /\ rate = "1.0" => (incFired /\ decFired)
        /\ rate = "0.0" => (~incFired /\ ~decFired)
        /\ (incFired /\ decFired /\ Len(pre) >= 1) => bits = pre
        /\ Len(bits) - Len(pre) \in {-1, 0, 1}

\* a mutate_resolution at rate 1.0 on a genome of one bit
C10_Witness ==
    /\ last = "mutate_resolution"
    /\ rate = "1.0"
    /\ incFired /\ decFired
    /\ Len(pre) = 1

====
